---- MODULE Spec2Model ----
(***************************************************************************)
(* Invoice reconciliation tool (src/app.py): one run of the script body    *)
(* that starts once both files are uploaded (line 35).  A run reads the    *)
(* two tables, canonicalises their headers, validates the required         *)
(* columns, coerces amounts and dates, aggregates each side, left-joins    *)
(* the aggregates on Invoice, fills the unmatched cells, computes          *)
(* Difference and Status, displays the table and builds the coloured       *)
(* Excel download; any exception is caught at line 151.                    *)
(*                                                                         *)
(* Cells are dynamically typed, as in pandas: every cell is a record       *)
(* [t, s, n] whose tag t is "str" (text s), "num" (float n), "date"        *)
(* (ordinal n = yyyymmdd), "nan" (missing value) or "nat" (missing date).  *)
(* Amounts are binary floating point numbers; the significand is           *)
(* FloatBits wide (a scaled-down binary64), addition rounds to nearest,    *)
(* ties to even.                                                           *)
(***************************************************************************)
EXTENDS Integers, Sequences, FiniteSets, TLC

\* ------------------------------------------------------------ bounds
MaxSubRows == 2
MaxRemRows == 2
MaxOrderRows == 3
FloatBits == 3

\* ------------------------------------------------------------ cells
Str(s) == [t |-> "str", s |-> s, n |-> 0]
Num(n) == [t |-> "num", s |-> "", n |-> n]
Date(n) == [t |-> "date", s |-> "", n |-> n]
NaN == [t |-> "nan", s |-> "", n |-> 0]
NaT == [t |-> "nat", s |-> "", n |-> 0]
isna(c) == c.t \in {"nan", "nat"}
fillna(c, v) == IF isna(c) THEN v ELSE c

\* ------------------------------------------------------------ text
\* The characters the model's texts use, in code point order.
Alphabet == "\f -/0123456789ABCDEFGHIJKLMNOPQRSTUVWXYZ_abcdefghijklmnopqrstuvwxyz"
Uppers == "ABCDEFGHIJKLMNOPQRSTUVWXYZ"
Lowers == "abcdefghijklmnopqrstuvwxyz"
Digits == "0123456789"
Whitespace == {" ", "\f"}

At(s, i) == SubSeq(s, i, i)
Chars == {At(Alphabet, i) : i \in 1..Len(Alphabet)}
\* The tables of the alphabet: code point rank, and the two case mappings.
OrdOf == [c \in Chars |-> CHOOSE i \in 1..Len(Alphabet) : At(Alphabet, i) = c]
UpperSet == {At(Uppers, i) : i \in 1..Len(Uppers)}
LowerSet == {At(Lowers, i) : i \in 1..Len(Lowers)}
DigitSet == {At(Digits, i) : i \in 1..Len(Digits)}
UpperOf == [c \in LowerSet |-> At(Uppers, CHOOSE i \in 1..Len(Lowers) : At(Lowers, i) = c)]
LowerOf == [c \in UpperSet |-> At(Lowers, CHOOSE i \in 1..Len(Uppers) : At(Uppers, i) = c)]
DigitOf == [c \in DigitSet |-> (CHOOSE i \in 1..Len(Digits) : At(Digits, i) = c) - 1]
Ord(c) == OrdOf[c]
IsCased(c) == c \in UpperSet \/ c \in LowerSet
ToUpper(c) == IF c \in LowerSet THEN UpperOf[c] ELSE c
ToLower(c) == IF c \in UpperSet THEN LowerOf[c] ELSE c

RECURSIVE lower(_)
lower(s) == IF s = "" THEN "" ELSE ToLower(At(s, 1)) \o lower(SubSeq(s, 2, Len(s)))

RECURSIVE upper(_)
upper(s) == IF s = "" THEN "" ELSE ToUpper(At(s, 1)) \o upper(SubSeq(s, 2, Len(s)))

RECURSIVE strip(_)
strip(s) ==
    IF s = "" THEN ""
    ELSE IF At(s, 1) \in Whitespace THEN strip(SubSeq(s, 2, Len(s)))
    ELSE IF At(s, Len(s)) \in Whitespace THEN strip(SubSeq(s, 1, Len(s) - 1))
    ELSE s

\* str.title(): a cased character is upper-cased when it follows an uncased
\* one (or starts the text) and lower-cased otherwise.
RECURSIVE TitleFrom(_, _, _)
TitleFrom(s, i, prevCased) ==
    IF i > Len(s) THEN ""
    ELSE LET c == At(s, i)
         IN  (IF ~IsCased(c) THEN c
              ELSE IF prevCased THEN ToLower(c) ELSE ToUpper(c))
             \o TitleFrom(s, i + 1, IsCased(c))
title(s) == TitleFrom(s, 1, FALSE)

endswith(s, suffix) ==
    Len(s) >= Len(suffix) /\ SubSeq(s, Len(s) - Len(suffix) + 1, Len(s)) = suffix

\* Python's order on texts: by code point, a proper prefix first.
RECURSIVE StrLess(_, _)
StrLess(a, b) ==
    IF b = "" THEN FALSE
    ELSE IF a = "" THEN TRUE
    ELSE IF At(a, 1) = At(b, 1) THEN StrLess(SubSeq(a, 2, Len(a)), SubSeq(b, 2, Len(b)))
    ELSE Ord(At(a, 1)) < Ord(At(b, 1))

IsDigits(s) == s # "" /\ \A i \in 1..Len(s) : At(s, i) \in DigitSet

RECURSIVE ParseDigits(_)
ParseDigits(s) ==
    IF s = "" THEN 0
    ELSE 10 * ParseDigits(SubSeq(s, 1, Len(s) - 1)) + DigitOf[At(s, Len(s))]

RECURSIVE FormatDigits(_, _)
FormatDigits(n, width) ==
    IF width = 0 THEN ""
    ELSE FormatDigits(n \div 10, width - 1) \o At(Digits, (n % 10) + 1)

\* ------------------------------------------------------------ numbers
RECURSIVE Pow2(_)
Pow2(k) == IF k = 0 THEN 1 ELSE 2 * Pow2(k - 1)

Abs(x) == IF x < 0 THEN -x ELSE x

\* The least e with a < 2^(FloatBits + e): the exponent of a's binade.
RECURSIVE Exponent(_, _)
Exponent(a, e) == IF a < Pow2(FloatBits + e) THEN e ELSE Exponent(a, e + 1)

\* The float nearest to the integer x (ties to the even significand).
RoundFloat(x) ==
    LET a == Abs(x)
        step == Pow2(Exponent(a, 0))
        q == a \div step
        r == a % step
        m == IF 2 * r < step THEN q
             ELSE IF 2 * r > step THEN q + 1
             ELSE IF q % 2 = 0 THEN q ELSE q + 1
    IN  IF x < 0 THEN -(m * step) ELSE m * step

FAdd(a, b) == RoundFloat(a + b)
FSub(a, b) == RoundFloat(a - b)

\* pd.to_numeric(errors="coerce") on one cell: a decimal integer numeral
\* (optionally signed) parses, anything else is NaN.
to_numeric(c) ==
    IF c.t = "num" THEN c
    ELSE IF c.t # "str" THEN NaN
    ELSE IF IsDigits(c.s) THEN Num(RoundFloat(ParseDigits(c.s)))
    ELSE IF Len(c.s) > 1 /\ At(c.s, 1) = "-" /\ IsDigits(SubSeq(c.s, 2, Len(c.s)))
         THEN Num(RoundFloat(-ParseDigits(SubSeq(c.s, 2, Len(c.s)))))
    ELSE NaN

\* ------------------------------------------------------------ dates
IsLeap(y) == (y % 4 = 0 /\ y % 100 # 0) \/ y % 400 = 0
DaysInMonth(y, m) ==
    IF m = 2 THEN (IF IsLeap(y) THEN 29 ELSE 28)
    ELSE IF m \in {4, 6, 9, 11} THEN 30 ELSE 31

\* pd.to_datetime(dayfirst=True, errors="coerce").dt.date on one cell, for
\* texts of the templates' DD-MM-YYYY form; any other text, an impossible
\* date or a missing cell is NaT.
to_datetime(c) ==
    IF c.t = "date" THEN c
    ELSE IF c.t # "str" THEN NaT
    ELSE IF /\ Len(c.s) = 10
            /\ At(c.s, 3) = "-" /\ At(c.s, 6) = "-"
            /\ IsDigits(SubSeq(c.s, 1, 2))
            /\ IsDigits(SubSeq(c.s, 4, 5))
            /\ IsDigits(SubSeq(c.s, 7, 10))
         THEN LET d == ParseDigits(SubSeq(c.s, 1, 2))
                  m == ParseDigits(SubSeq(c.s, 4, 5))
                  y == ParseDigits(SubSeq(c.s, 7, 10))
              IN  IF y >= 1 /\ m \in 1..12 /\ d >= 1 /\ d <= DaysInMonth(y, m)
                  THEN Date(y * 10000 + m * 100 + d)
                  ELSE NaT
    ELSE NaT

\* Series.astype(str) on one cell: str() of the object it holds.
astype_str(c) ==
    IF c.t = "date"
    THEN Str(FormatDigits(c.n \div 10000, 4) \o "-" \o
             FormatDigits((c.n \div 100) % 100, 2) \o "-" \o
             FormatDigits(c.n % 100, 2))
    ELSE IF c.t = "nan" THEN Str("nan")
    ELSE IF c.t = "nat" THEN Str("NaT")
    ELSE c

\* Series.replace(old, new) on one cell: whole-value replacement.
replace(c, old, new) == IF c = Str(old) THEN Str(new) ELSE c

\* ------------------------------------------------------------ frames
\* A DataFrame: its column labels and its rows of cells, by position.
Frame(columns, rows) == [columns |-> columns, rows |-> rows]
Range(seq) == {seq[i] : i \in 1..Len(seq)}
Positions(df, name) == {i \in 1..Len(df.columns) : df.columns[i] = name}
\* df[name] of a label carried by two columns is a frame, not a series: the
\* conversions and groupby raise on it.
Ambiguous(df, name) == Cardinality(Positions(df, name)) > 1
Col(df, name) == CHOOSE i \in Positions(df, name) : TRUE
Cell(df, r, name) == df.rows[r][Col(df, name)]
NRows(df) == Len(df.rows)

\* df[name]: the column as a sequence of cells.
Column(df, name) == [r \in 1..Len(df.rows) |-> Cell(df, r, name)]

\* df[name] = values: the column is replaced in place when the label
\* exists and appended as the last column when it does not.
AssignColumn(df, name, values) ==
    IF Positions(df, name) # {}
    THEN [df EXCEPT !.rows = [r \in 1..Len(df.rows) |->
                                 [df.rows[r] EXCEPT ![Col(df, name)] = values[r]]]]
    ELSE Frame(Append(df.columns, name),
               [r \in 1..Len(df.rows) |-> Append(df.rows[r], values[r])])

\* df.rename(columns={old: new}).
rename(df, old, new) ==
    [df EXCEPT !.columns = [i \in 1..Len(df.columns) |->
                               IF df.columns[i] = old THEN new ELSE df.columns[i]]]

\* df[[names]]: the named columns, in the order given.
select(df, names) ==
    Frame(names, [r \in 1..Len(df.rows) |->
                     [k \in 1..Len(names) |-> Cell(df, r, names[k])]])

\* ------------------------------------------------------------ groupby
GroupKey(df, r, keys) == [k \in 1..Len(keys) |-> Cell(df, r, keys[k])]
HasNullKey(key) == \E k \in 1..Len(key) : isna(key[k])

\* The order of two cells of one column: texts by code point, dates by day.
CellLess(a, b) == IF a.t = "str" /\ b.t = "str" THEN StrLess(a.s, b.s) ELSE a.n < b.n

RECURSIVE KeyLess(_, _)
KeyLess(a, b) ==
    IF a = <<>> \/ b = <<>> THEN FALSE
    ELSE IF Head(a) = Head(b) THEN KeyLess(Tail(a), Tail(b))
    ELSE CellLess(Head(a), Head(b))

RECURSIVE SortKeys(_)
SortKeys(S) ==
    IF S = {} THEN <<>>
    ELSE LET least == CHOOSE k \in S : \A o \in S \ {k} : KeyLess(k, o)
         IN  <<least>> \o SortKeys(S \ {least})

\* A slip in the reduction: a group keeps its last value instead of its sum.
RECURSIVE GroupSumsLast(_, _, _, _, _)
GroupSumsLast(df, keys, value, r, acc) ==
    IF r > Len(df.rows) THEN acc
    ELSE LET key == GroupKey(df, r, keys)
             v == Cell(df, r, value).n
         IN  IF HasNullKey(key) THEN GroupSumsLast(df, keys, value, r + 1, acc)
             ELSE IF key \in DOMAIN acc
             THEN GroupSumsLast(df, keys, value, r + 1, [acc EXCEPT ![key] = v])
             ELSE GroupSumsLast(df, keys, value, r + 1, acc @@ (key :> v))

\* One pass over the rows in their order: a row whose key holds a null is
\* skipped (dropna=True), every other row adds its value to its group's
\* running sum.
RECURSIVE GroupSums(_, _, _, _, _)
GroupSums(df, keys, value, r, acc) ==
    IF r > Len(df.rows) THEN acc
    ELSE LET key == GroupKey(df, r, keys)
             v == Cell(df, r, value).n
         IN  IF HasNullKey(key) THEN GroupSums(df, keys, value, r + 1, acc)
             ELSE IF key \in DOMAIN acc
             THEN GroupSums(df, keys, value, r + 1, [acc EXCEPT ![key] = FAdd(@, v)])
             ELSE GroupSums(df, keys, value, r + 1, acc @@ (key :> FAdd(0, v)))

\* df.groupby(keys, as_index=False)[value].sum(): one row per key, the keys
\* in sorted order (sort=True).
groupby_sum(df, keys, value) ==
    LET acc == GroupSums(df, keys, value, 1, <<>>)
        order == SortKeys(DOMAIN acc)
    IN  Frame(Append(keys, value),
              [i \in 1..Len(order) |-> Append(order[i], Num(acc[order[i]]))])

\* ------------------------------------------------------------ merge
RECURSIVE Flatten(_)
Flatten(seqs) == IF seqs = <<>> THEN <<>> ELSE Head(seqs) \o Flatten(Tail(seqs))

\* pd.merge(left, right, on=on, how="left"): the left rows in their order,
\* each once per right row with an equal key (in the right's order), or
\* once with the right's columns missing when there is none.
merge_left(left, right, on) ==
    LET IsOther(c) == c # on
        others == SelectSeq(right.columns, IsOther)
        RightPart(j) == [k \in 1..Len(others) |-> Cell(right, j, others[k])]
        Missing == [k \in 1..Len(others) |-> NaN]
        RowsFor(l) ==
            LET Same(j) == Cell(right, j, on) = Cell(left, l, on)
                matches == SelectSeq([j \in 1..Len(right.rows) |-> j], Same)
            IN  IF matches = <<>> THEN <<left.rows[l] \o Missing>>
                ELSE [m \in 1..Len(matches) |-> left.rows[l] \o RightPart(matches[m])]
    IN  Frame(left.columns \o others,
              Flatten([l \in 1..Len(left.rows) |-> RowsFor(l)]))

\* ------------------------------------------------------------ pipeline
required_sub_cols == {"Month", "Invoice", "Member Id", "Transaction Date", "Amount"}
required_rem_cols == {"Invoice", "Payment Reference", "Settlement Date", "Amount"}

\* The two readers yield the file's table as rows of text cells (dtype=str),
\* an empty cell as NaN; an unreadable file makes them raise.
read_csv(file) == Frame(file.columns, file.rows)
read_excel(file) == Frame(file.columns, file.rows)
read_table(file) ==
    IF endswith(lower(file.name), ".csv") THEN read_csv(file) ELSE read_excel(file)

clean_columns(df) ==
    [df EXCEPT !.columns = [i \in 1..Len(df.columns) |-> title(strip(df.columns[i]))]]

\* A slip in lines 57-59: any required column suffices.
has_required_any(df, required) == required \cap Range(df.columns) # {}
has_required(df, required) == required \subseteq Range(df.columns)

CoerceAmount(c) == fillna(to_numeric(c), Num(0))
coerce_amounts(df) ==
    AssignColumn(df, "Amount",
                 [r \in 1..Len(df.rows) |-> CoerceAmount(Cell(df, r, "Amount"))])
coerce_dates(df, name) ==
    AssignColumn(df, name, [r \in 1..Len(df.rows) |-> to_datetime(Cell(df, r, name))])

aggregate_submission(df) ==
    rename(groupby_sum(df, <<"Month", "Invoice">>, "Amount"),
           "Amount", "Submission_Amount")

aggregate_remittance(df) ==
    rename(groupby_sum(df, <<"Invoice", "Payment Reference", "Settlement Date">>, "Amount"),
           "Amount", "Remittance_Amount")

\* A join on the invoice trimmed and upper-cased instead of the cell as read.
CanonicalInvoice(c) == IF c.t = "str" THEN Str(upper(strip(c.s))) ELSE c
join_canonical(sa, ra) ==
    merge_left(AssignColumn(sa, "Invoice",
                            [r \in 1..Len(sa.rows) |-> CanonicalInvoice(Cell(sa, r, "Invoice"))]),
               AssignColumn(ra, "Invoice",
                            [r \in 1..Len(ra.rows) |-> CanonicalInvoice(Cell(ra, r, "Invoice"))]),
               "Invoice")
join(sa, ra) == merge_left(sa, ra, "Invoice")

FillAmount(c) == fillna(c, Num(0))
FillReference(c) == fillna(c, Str("Pending"))
FillDate(c) == replace(astype_str(c), "NaT", "")
fill_missing(res) ==
    LET n == Len(res.rows)
        amounts == [r \in 1..n |-> FillAmount(Cell(res, r, "Remittance_Amount"))]
        references == [r \in 1..n |-> FillReference(Cell(res, r, "Payment Reference"))]
        dates == [r \in 1..n |-> FillDate(Cell(res, r, "Settlement Date"))]
    IN  AssignColumn(
            AssignColumn(
                AssignColumn(res, "Remittance_Amount", amounts),
                "Payment Reference", references),
            "Settlement Date", dates)

\* A slip in line 92: the operands the other way round.
difference_reversed(submission_amount, remittance_amount) ==
    FSub(remittance_amount, submission_amount)
difference(submission_amount, remittance_amount) ==
    FSub(submission_amount, remittance_amount)
with_difference(res) ==
    AssignColumn(res, "Difference",
                 [r \in 1..Len(res.rows) |->
                     Num(difference(Cell(res, r, "Submission_Amount").n,
                                    Cell(res, r, "Remittance_Amount").n))])

\* A slip in lines 96-101: the zero difference tested first.
get_status_difference_first(remittance_amount, diff) ==
    IF diff = 0 THEN "Matched"
    ELSE IF remittance_amount = 0 THEN "Pending from Insurance"
    ELSE "Not Matched"
get_status(remittance_amount, diff) ==
    IF remittance_amount = 0 THEN "Pending from Insurance"
    ELSE IF diff = 0 THEN "Matched"
    ELSE "Not Matched"
with_status(res) ==
    AssignColumn(res, "Status",
                 [r \in 1..Len(res.rows) |->
                     Str(get_status(Cell(res, r, "Remittance_Amount").n,
                                    Cell(res, r, "Difference").n))])

OutputColumns ==
    <<"Month", "Invoice", "Payment Reference", "Settlement Date",
      "Submission_Amount", "Remittance_Amount", "Difference", "Status">>
reorder(res) == select(res, OutputColumns)

highlight_status(status) == IF status = "Matched" THEN "#d4edda" ELSE "#fff3cd"

\* The characters openpyxl refuses in a cell (IllegalCharacterError); of the
\* model's alphabet, the form feed.
IllegalCharacters == {"\f"}
HasIllegal(c) == c.t = "str" /\ \E i \in 1..Len(c.s) : At(c.s, i) \in IllegalCharacters
to_excel_raises(df) ==
    \E r \in 1..Len(df.rows) : \E k \in 1..Len(df.columns) : HasIllegal(df.rows[r][k])

\* The workbook of lines 122-142: the header and the rows, each data row
\* filled green when its eighth cell is "Matched" and orange otherwise.
workbook(df) ==
    [header |-> df.columns,
     rows |-> df.rows,
     fills |-> [r \in 1..Len(df.rows) |->
                   IF df.rows[r][Len(OutputColumns)].s = "Matched"
                   THEN "d4edda" ELSE "fff3cd"]]

\* Lines 62-109 as one function of the two validated frames.
classify(submission, remittance) ==
    reorder(with_status(with_difference(fill_missing(
        join(aggregate_submission(
                 coerce_dates(coerce_amounts(submission), "Transaction Date")),
             aggregate_remittance(
                 coerce_dates(coerce_amounts(remittance), "Settlement Date")))))))

\* ------------------------------------------------------------ state
VARIABLES
    pc,              \* the step of the run that is next
    sub_file,        \* the uploaded submission file
    rem_file,        \* the uploaded remittance file
    submission_df,
    remittance_df,
    submission_agg,
    remittance_agg,
    result,
    errors,          \* the st.error messages emitted, in order
    table,           \* the st.dataframe emitted (at most one)
    download         \* the reconciliation st.download_button emitted (at most one)

vars == <<pc, sub_file, rem_file, submission_df, remittance_df, submission_agg,
          remittance_agg, result, errors, table, download>>

NoFrame == Frame(<<>>, <<>>)

\* ------------------------------------------------------------ uploads
File(name, readable, columns, rows) ==
    [name |-> name, readable |-> readable, columns |-> columns, rows |-> rows]

SubTemplate == <<"Month", "Invoice", "Member ID", "Transaction Date", "Amount">>
SubMessy == <<" month", "INVOICE", "member id ", "Transaction date", "AMOUNT">>
SubReduced == <<"Invoice", "Member ID", "Amount", "Month">>
SubDoubled == <<"Month", "Invoice", "Member ID", "Transaction Date", "Amount", "amount ">>
RemTemplate == <<"Invoice", "Payment Reference", "Settlement Date", "Amount">>
RemMessy == <<"invoice ", " payment reference", "SETTLEMENT DATE", "amount">>
RemReduced == <<"Invoice", "Transaction Date", "Amount">>

SubRow(month, invoice, amount) ==
    [Month |-> month, Invoice |-> invoice, Amount |-> amount]
RemRow(invoice, reference, date, amount) ==
    [Invoice |-> invoice, Reference |-> reference, Date |-> date, Amount |-> amount]

\* The cell a row holds under a raw column label.
SubCell(label, row) ==
    LET c == title(strip(label))
    IN  IF c = "Month" THEN row.Month
        ELSE IF c = "Invoice" THEN row.Invoice
        ELSE IF c = "Member Id" THEN Str("12345")
        ELSE IF c = "Transaction Date" THEN Str("22-10-2025")
        ELSE row.Amount
RemCell(label, row) ==
    LET c == title(strip(label))
    IN  IF c = "Invoice" THEN row.Invoice
        ELSE IF c = "Payment Reference" THEN row.Reference
        ELSE IF c \in {"Settlement Date", "Transaction Date"} THEN row.Date
        ELSE row.Amount

SubTable(name, columns, rows) ==
    File(name, TRUE, columns,
         [r \in 1..Len(rows) |-> [k \in 1..Len(columns) |-> SubCell(columns[k], rows[r])]])
RemTable(name, columns, rows) ==
    File(name, TRUE, columns,
         [r \in 1..Len(rows) |-> [k \in 1..Len(columns) |-> RemCell(columns[k], rows[r])]])
Unreadable(name) == File(name, FALSE, <<>>, <<>>)

SeqsUpTo(S, n) == UNION {[1..k -> S] : k \in 0..n}

SubRows ==
    { SubRow(Str("2025-01"), Str("INV1"), Str("5")),
      SubRow(Str("2025-02"), Str("INV1"), Str("x")),
      SubRow(Str("2025-01"), Str("inv1 "), Str("3")) }
RemRows ==
    { RemRow(Str("INV1"), Str("REF1"), Str("24-10-2025"), Str("5")),
      RemRow(Str("INV1"), Str("REF2"), Str("25-10-2025"), Str("x")),
      RemRow(Str("INV1"), Str("REF1"), Str("n/a"), Str("5")),
      RemRow(Str("inv1 "), Str("REF1"), Str("24-10-2025"), Str("3")) }

OrderSubRows ==
    { SubRow(Str("2025-01"), Str("INV1"), Str("8")),
      SubRow(Str("2025-01"), Str("INV1"), Str("1")) }
OrderRemRows ==
    { RemRow(Str("INV1"), Str("REF1"), Str("24-10-2025"), Str("10")) }

OneSubRow == <<SubRow(Str("2025-01"), Str("INV1"), Str("5"))>>
OneRemRow == <<RemRow(Str("INV1"), Str("REF1"), Str("24-10-2025"), Str("5"))>>

\* Header and reader cases, each with one row of data.
HeaderUploads ==
    ({SubTable("submission.csv", h, OneSubRow) :
          h \in {SubTemplate, SubMessy, SubReduced, SubDoubled}}
       \cup {SubTable("Submission.XLSX", SubTemplate, OneSubRow),
             Unreadable("submission.csv")})
    \X
    ({RemTable("remittance.csv", h, OneRemRow) :
          h \in {RemTemplate, RemMessy, RemReduced}}
       \cup {RemTable("Remittance.XLSX", RemTemplate, OneRemRow),
             Unreadable("remittance.xlsx")})

\* Rows with an empty cell in a key column or a control character.
NoMonthRow == SubRow(NaN, Str("INV1"), Str("5"))
ControlRow == SubRow(Str("2025-01"), Str("INV\f2"), Str("5"))
NoReferenceRow == RemRow(Str("INV1"), NaN, Str("24-10-2025"), Str("3"))
NoDateRow == RemRow(Str("INV1"), Str("REF1"), NaN, Str("3"))
EdgeUploads ==
    { <<SubTable("submission.csv", SubTemplate, u[1]),
        RemTable("remittance.csv", RemTemplate, u[2])>> :
      u \in { <<OneSubRow \o <<ControlRow>>, OneRemRow>>,
              <<<<NoMonthRow>> \o OneSubRow, OneRemRow>>,
              <<<<NoMonthRow>>, <<>>>>,
              <<OneSubRow, <<NoReferenceRow>> \o OneRemRow>>,
              <<OneSubRow, <<NoDateRow>>>>,
              <<OneSubRow, <<NoDateRow, NoReferenceRow>> \o OneRemRow>> } }

\* Data cases under the templates' headers.
DataUploads ==
    {SubTable("submission.csv", SubTemplate, rows) : rows \in SeqsUpTo(SubRows, MaxSubRows)}
    \X
    {RemTable("remittance.csv", RemTemplate, rows) : rows \in SeqsUpTo(RemRows, MaxRemRows)}

OrderUploads ==
    {SubTable("submission.csv", SubTemplate, rows) :
         rows \in SeqsUpTo(OrderSubRows, MaxOrderRows)}
    \X
    {RemTable("remittance.csv", RemTemplate, rows) : rows \in SeqsUpTo(OrderRemRows, 1)}

InitWith(uploads) ==
    /\ pc = "read"
    /\ \E u \in uploads : sub_file = u[1] /\ rem_file = u[2]
    /\ submission_df = NoFrame
    /\ remittance_df = NoFrame
    /\ submission_agg = NoFrame
    /\ remittance_agg = NoFrame
    /\ result = NoFrame
    /\ errors = <<>>
    /\ table = <<>>
    /\ download = <<>>

Init == InitWith(HeaderUploads \cup EdgeUploads \cup DataUploads)
InitOrder == InitWith(HeaderUploads \cup EdgeUploads \cup OrderUploads)

\* ------------------------------------------------------------ steps
\* Whether the step at pc raises.  A raise leaves the try block, so the
\* frames assigned so far are never read again.
Raises(step) ==
    IF step = "read" THEN ~sub_file.readable \/ ~rem_file.readable
    ELSE IF step = "amounts"
    THEN Ambiguous(submission_df, "Amount") \/ Ambiguous(remittance_df, "Amount")
    ELSE IF step = "dates"
    THEN \/ Ambiguous(submission_df, "Transaction Date")
         \/ Ambiguous(remittance_df, "Settlement Date")
    ELSE IF step = "agg_sub"
    THEN Ambiguous(submission_df, "Month") \/ Ambiguous(submission_df, "Invoice")
    ELSE IF step = "agg_rem"
    THEN \/ Ambiguous(remittance_df, "Invoice")
         \/ Ambiguous(remittance_df, "Payment Reference")
    ELSE IF step = "export" THEN to_excel_raises(result)
    ELSE FALSE

\* Lines 37-47.
ReadFiles ==
    /\ pc = "read" /\ ~Raises("read")
    /\ submission_df' = read_table(sub_file)
    /\ remittance_df' = read_table(rem_file)
    /\ pc' = "clean"
    /\ UNCHANGED <<sub_file, rem_file, submission_agg, remittance_agg, result,
                   errors, table, download>>

\* Lines 49-51.
CleanColumns ==
    /\ pc = "clean"
    /\ submission_df' = clean_columns(submission_df)
    /\ remittance_df' = clean_columns(remittance_df)
    /\ pc' = "validate"
    /\ UNCHANGED <<sub_file, rem_file, submission_agg, remittance_agg, result,
                   errors, table, download>>

SubmissionSchemaError ==
    "Submission file must have columns: Month, Invoice, Member ID, Transaction Date, Amount"
RemittanceSchemaError ==
    "Remittance file must have columns: Invoice, Payment Reference, Settlement Date, Amount"

\* Lines 57-58.
SchemaErrorSubmission ==
    /\ pc = "validate"
    /\ ~has_required(submission_df, required_sub_cols)
    /\ errors' = Append(errors, SubmissionSchemaError)
    /\ pc' = "done"
    /\ UNCHANGED <<sub_file, rem_file, submission_df, remittance_df, submission_agg,
                   remittance_agg, result, table, download>>

\* Lines 59-60.
SchemaErrorRemittance ==
    /\ pc = "validate"
    /\ has_required(submission_df, required_sub_cols)
    /\ ~has_required(remittance_df, required_rem_cols)
    /\ errors' = Append(errors, RemittanceSchemaError)
    /\ pc' = "done"
    /\ UNCHANGED <<sub_file, rem_file, submission_df, remittance_df, submission_agg,
                   remittance_agg, result, table, download>>

\* Line 61: the else branch.
Validated ==
    /\ pc = "validate"
    /\ has_required(submission_df, required_sub_cols)
    /\ has_required(remittance_df, required_rem_cols)
    /\ pc' = "amounts"
    /\ UNCHANGED <<sub_file, rem_file, submission_df, remittance_df, submission_agg,
                   remittance_agg, result, errors, table, download>>

\* Lines 62-64.
CoerceAmounts ==
    /\ pc = "amounts" /\ ~Raises("amounts")
    /\ submission_df' = coerce_amounts(submission_df)
    /\ remittance_df' = coerce_amounts(remittance_df)
    /\ pc' = "dates"
    /\ UNCHANGED <<sub_file, rem_file, submission_agg, remittance_agg, result,
                   errors, table, download>>

\* Lines 66-68.
CoerceDates ==
    /\ pc = "dates" /\ ~Raises("dates")
    /\ submission_df' = coerce_dates(submission_df, "Transaction Date")
    /\ remittance_df' = coerce_dates(remittance_df, "Settlement Date")
    /\ pc' = "agg_sub"
    /\ UNCHANGED <<sub_file, rem_file, submission_agg, remittance_agg, result,
                   errors, table, download>>

\* Lines 70-72.
AggregateSubmission ==
    /\ pc = "agg_sub" /\ ~Raises("agg_sub")
    /\ submission_agg' = aggregate_submission(submission_df)
    /\ pc' = "agg_rem"
    /\ UNCHANGED <<sub_file, rem_file, submission_df, remittance_df, remittance_agg,
                   result, errors, table, download>>

\* Lines 74-76.
AggregateRemittance ==
    /\ pc = "agg_rem" /\ ~Raises("agg_rem")
    /\ remittance_agg' = aggregate_remittance(remittance_df)
    /\ pc' = "merge"
    /\ UNCHANGED <<sub_file, rem_file, submission_df, remittance_df, submission_agg,
                   result, errors, table, download>>

\* Lines 78-84.
Merge ==
    /\ pc = "merge"
    /\ result' = join(submission_agg, remittance_agg)
    /\ pc' = "fill"
    /\ UNCHANGED <<sub_file, rem_file, submission_df, remittance_df, submission_agg,
                   remittance_agg, errors, table, download>>

\* Lines 86-89.
FillMissing ==
    /\ pc = "fill"
    /\ result' = fill_missing(result)
    /\ pc' = "difference"
    /\ UNCHANGED <<sub_file, rem_file, submission_df, remittance_df, submission_agg,
                   remittance_agg, errors, table, download>>

\* Lines 91-92.
Difference ==
    /\ pc = "difference"
    /\ result' = with_difference(result)
    /\ pc' = "status"
    /\ UNCHANGED <<sub_file, rem_file, submission_df, remittance_df, submission_agg,
                   remittance_agg, errors, table, download>>

\* Lines 94-109.
Status ==
    /\ pc = "status"
    /\ result' = reorder(with_status(result))
    /\ pc' = "display"
    /\ UNCHANGED <<sub_file, rem_file, submission_df, remittance_df, submission_agg,
                   remittance_agg, errors, table, download>>

\* Lines 111-119.
Display ==
    /\ pc = "display"
    /\ table' = <<[frame |-> result,
                   styles |-> [r \in 1..Len(result.rows) |->
                                  highlight_status(Cell(result, r, "Status").s)]]>>
    /\ pc' = "export"
    /\ UNCHANGED <<sub_file, rem_file, submission_df, remittance_df, submission_agg,
                   remittance_agg, result, errors, download>>

\* Lines 121-149.
Export ==
    /\ pc = "export" /\ ~Raises("export")
    /\ download' = <<workbook(result)>>
    /\ pc' = "done"
    /\ UNCHANGED <<sub_file, rem_file, submission_df, remittance_df, submission_agg,
                   remittance_agg, result, errors, table>>

\* An exception leaves the try block at the step that raised it.
Raise ==
    /\ pc \in {"read", "amounts", "dates", "agg_sub", "agg_rem", "export"}
    /\ Raises(pc)
    /\ pc' = "except"
    /\ UNCHANGED <<sub_file, rem_file, submission_df, remittance_df, submission_agg,
                   remittance_agg, result, errors, table, download>>

\* Lines 151-153.
HandleException ==
    /\ pc = "except"
    /\ errors' = Append(errors, "Error")
    /\ pc' = "done"
    /\ UNCHANGED <<sub_file, rem_file, submission_df, remittance_df, submission_agg,
                   remittance_agg, result, table, download>>

Next ==
    \/ ReadFiles
    \/ CleanColumns
    \/ SchemaErrorSubmission
    \/ SchemaErrorRemittance
    \/ Validated
    \/ CoerceAmounts
    \/ CoerceDates
    \/ AggregateSubmission
    \/ AggregateRemittance
    \/ Merge
    \/ FillMissing
    \/ Difference
    \/ Status
    \/ Display
    \/ Export
    \/ Raise
    \/ HandleException

Spec == Init /\ [][Next]_vars
SpecOrder == InitOrder /\ [][Next]_vars

\* ------------------------------------------------------------ properties
\* The result has all its columns once the status step has run; the table
\* is emitted right after it.
ResultReady == pc = "display" \/ table # <<>>
SubAggregated == submission_agg # NoFrame
RemAggregated == remittance_agg # NoFrame

Rows(df) == 1..Len(df.rows)
SubKey(df, r) == GroupKey(df, r, <<"Month", "Invoice">>)
RemKey(df, r) == GroupKey(df, r, <<"Invoice", "Payment Reference", "Settlement Date">>)
\* The remittance aggregates carrying exactly the invoice of result row r.
MatchesOf(r) ==
    {j \in Rows(remittance_agg) :
        Cell(remittance_agg, j, "Invoice") = Cell(result, r, "Invoice")}
\* The result rows of one submission aggregate.
ResultRowsOf(a) == {r \in Rows(result) : SubKey(result, r) = SubKey(submission_agg, a)}

\* C1: the result holds exactly one row per aggregated submission key
\* (Month, Invoice), whatever the remittance holds: none dropped, none
\* duplicated, as many result rows as submission keys.
C1_LeftPreservation ==
    ResultReady =>
        /\ NRows(result) = NRows(submission_agg)
        /\ \A a \in Rows(submission_agg) : Cardinality(ResultRowsOf(a)) = 1

\* C2: every result row's Status is "Pending from Insurance" when its
\* Remittance_Amount is 0, else "Matched" when its Difference is 0, else
\* "Not Matched"; a row without a matching remittance is pending, and a row
\* whose received amount equals its non-zero submitted amount is matched.
C2_StatusOrder ==
    ResultReady =>
        \A r \in Rows(result) :
            LET sub == Cell(result, r, "Submission_Amount").n
                rem == Cell(result, r, "Remittance_Amount").n
                diff == Cell(result, r, "Difference").n
                status == Cell(result, r, "Status").s
            IN  /\ rem = 0 => status = "Pending from Insurance"
                /\ rem # 0 /\ diff = 0 => status = "Matched"
                /\ rem # 0 /\ diff # 0 => status = "Not Matched"
                /\ MatchesOf(r) = {} => status = "Pending from Insurance"
                /\ rem = sub /\ sub # 0 => status = "Matched"

\* C2's case: one result holding a pending row whose Difference is 0 too, a
\* matched row and a not matched row.
C2_Witness ==
    /\ ResultReady
    /\ \E r \in Rows(result) :
           /\ Cell(result, r, "Remittance_Amount").n = 0
           /\ Cell(result, r, "Difference").n = 0
           /\ Cell(result, r, "Status").s = "Pending from Insurance"
    /\ \E r \in Rows(result) : Cell(result, r, "Status").s = "Matched"
    /\ \E r \in Rows(result) : Cell(result, r, "Status").s = "Not Matched"

\* C5: every result row's Difference is its Submission_Amount minus its
\* Remittance_Amount (the float subtraction of the two cells), and the
\* Remittance_Amount of a row without a matching remittance is 0.
C5_Difference ==
    ResultReady =>
        \A r \in Rows(result) :
            LET sub == Cell(result, r, "Submission_Amount").n
                rem == Cell(result, r, "Remittance_Amount").n
                diff == Cell(result, r, "Difference")
            IN  /\ diff = Num(RoundFloat(sub - rem))
                /\ MatchesOf(r) = {} => rem = 0 /\ diff = Num(sub)

\* C5's case: one result holding an unmatched row and a matched row with a
\* non-zero Difference.
C5_Witness ==
    /\ ResultReady
    /\ \E r \in Rows(result) :
           MatchesOf(r) = {} /\ Cell(result, r, "Submission_Amount").n # 0
    /\ \E r \in Rows(result) :
           /\ MatchesOf(r) # {}
           /\ Cell(result, r, "Remittance_Amount").n # 0
           /\ Cell(result, r, "Difference").n # 0

\* The float sum of a sequence of amounts, left to right.
RECURSIVE FoldSum(_)
FoldSum(vals) ==
    IF vals = <<>> THEN 0
    ELSE FAdd(FoldSum(SubSeq(vals, 1, Len(vals) - 1)), vals[Len(vals)])

\* The exact sum of the values of a function with a finite domain.
RECURSIVE SumOver(_)
SumOver(f) ==
    IF DOMAIN f = {} THEN 0
    ELSE LET x == CHOOSE y \in DOMAIN f : TRUE
         IN  f[x] + SumOver([y \in DOMAIN f \ {x} |-> f[y]])

\* The amounts of the rows of df whose key is `key`, in row order.
AmountsWithKey(df, keys, key) ==
    LET Has(r) == GroupKey(df, r, keys) = key
        idx == SelectSeq([r \in 1..Len(df.rows) |-> r], Has)
    IN  [i \in 1..Len(idx) |-> Cell(df, idx[i], "Amount").n]

GroupedRight(df, agg, keys, total) ==
    /\ \A i, j \in Rows(agg) : i # j => GroupKey(agg, i, keys) # GroupKey(agg, j, keys)
    /\ \A i \in Rows(agg) :
           Cell(agg, i, total).n = FoldSum(AmountsWithKey(df, keys, GroupKey(agg, i, keys)))
    /\ \A r \in Rows(df) :
           ~HasNullKey(GroupKey(df, r, keys)) =>
               \E i \in Rows(agg) : GroupKey(agg, i, keys) = GroupKey(df, r, keys)
    /\ NRows(df) = 0 => NRows(agg) = 0

C3_NoRemittanceLost ==
    ResultReady =>
        \A a \in Rows(submission_agg) :
            LET carrying == {j \in Rows(remittance_df) :
                                Cell(remittance_df, j, "Invoice") =
                                    Cell(submission_agg, a, "Invoice")}
                shown == [r \in ResultRowsOf(a) |-> Cell(result, r, "Remittance_Amount").n]
                paid == [j \in carrying |-> Cell(remittance_df, j, "Amount").n]
            IN  SumOver(shown) = SumOver(paid)

\* C6: a result row without a matching remittance aggregate carries
\* Remittance_Amount 0, Payment Reference "Pending" and the empty text as
\* its Settlement Date; a matched row carries the reference, the date (as
\* YYYY-MM-DD) and the amount of a remittance aggregate of its invoice.
C6_UnmatchedDefaults ==
    ResultReady =>
        \A r \in Rows(result) :
            IF MatchesOf(r) = {}
            THEN /\ Cell(result, r, "Remittance_Amount") = Num(0)
                 /\ Cell(result, r, "Payment Reference") = Str("Pending")
                 /\ Cell(result, r, "Settlement Date") = Str("")
            ELSE \E j \in MatchesOf(r) :
                 /\ Cell(result, r, "Remittance_Amount") =
                        Cell(remittance_agg, j, "Remittance_Amount")
                 /\ Cell(result, r, "Payment Reference") =
                        Cell(remittance_agg, j, "Payment Reference")
                 /\ Cell(result, r, "Settlement Date") =
                        astype_str(Cell(remittance_agg, j, "Settlement Date"))

\* Two invoice cells that differ at most in letter case and in leading or
\* trailing whitespace.
SameInvoice(a, b) ==
    a.t = "str" /\ b.t = "str" /\ upper(strip(a.s)) = upper(strip(b.s))
SameRemittance(r, j) ==
    /\ Cell(result, r, "Remittance_Amount") = Cell(remittance_agg, j, "Remittance_Amount")
    /\ Cell(result, r, "Payment Reference") = Cell(remittance_agg, j, "Payment Reference")
    /\ Cell(result, r, "Settlement Date") =
           astype_str(Cell(remittance_agg, j, "Settlement Date"))

\* C7 as claimed: invoices that differ only in letter case or surrounding
\* whitespace are one invoice: they never make two aggregates of one pass,
\* and a submission aggregate is joined to every remittance aggregate of
\* such an invoice.
C7_InvoiceInsensitive ==
    ResultReady =>
        /\ \A i, j \in Rows(submission_agg) :
               i # j /\ Cell(submission_agg, i, "Month") = Cell(submission_agg, j, "Month")
                   => ~SameInvoice(Cell(submission_agg, i, "Invoice"),
                                   Cell(submission_agg, j, "Invoice"))
        /\ \A i, j \in Rows(remittance_agg) :
               /\ i # j
               /\ Cell(remittance_agg, i, "Payment Reference") =
                      Cell(remittance_agg, j, "Payment Reference")
               /\ Cell(remittance_agg, i, "Settlement Date") =
                      Cell(remittance_agg, j, "Settlement Date")
                   => ~SameInvoice(Cell(remittance_agg, i, "Invoice"),
                                   Cell(remittance_agg, j, "Invoice"))
        /\ \A a \in Rows(submission_agg) : \A j \in Rows(remittance_agg) :
               SameInvoice(Cell(submission_agg, a, "Invoice"),
                           Cell(remittance_agg, j, "Invoice"))
                   => \E r \in ResultRowsOf(a) : SameRemittance(r, j)

\* C7 as amended: invoice identity is the exact text of the cell.  Each pass
\* has one aggregate per distinct key as read (no empty cell), and a
\* submission aggregate is joined to exactly the remittance aggregates whose
\* Invoice is the same text, once each, or gets one unmatched row
\* (Remittance_Amount 0, Payment Reference "Pending") when there is none,
\* whatever other spellings of the invoice the remittance holds.
C7_InvoiceExact ==
    ResultReady =>
        /\ NRows(submission_agg) =
               Cardinality({SubKey(submission_df, r) : r \in
                               {x \in Rows(submission_df) :
                                   ~HasNullKey(SubKey(submission_df, x))}})
        /\ NRows(remittance_agg) =
               Cardinality({RemKey(remittance_df, r) : r \in
                               {x \in Rows(remittance_df) :
                                   ~HasNullKey(RemKey(remittance_df, x))}})
        /\ \A a \in Rows(submission_agg) :
               LET exact == {j \in Rows(remittance_agg) :
                                Cell(remittance_agg, j, "Invoice") =
                                    Cell(submission_agg, a, "Invoice")}
               IN  IF exact = {}
                   THEN /\ Cardinality(ResultRowsOf(a)) = 1
                        /\ \A r \in ResultRowsOf(a) :
                               /\ Cell(result, r, "Remittance_Amount") = Num(0)
                               /\ Cell(result, r, "Payment Reference") = Str("Pending")
                   ELSE /\ Cardinality(ResultRowsOf(a)) = Cardinality(exact)
                        /\ \A j \in exact : \E r \in ResultRowsOf(a) : SameRemittance(r, j)

\* C7's case: two submission aggregates of one month whose invoices differ
\* only in case and whitespace, one of them unmatched although the
\* remittance holds the other spelling.
C7_Witness ==
    /\ ResultReady
    /\ \E a, b \in Rows(submission_agg) :
           /\ a # b
           /\ Cell(submission_agg, a, "Month") = Cell(submission_agg, b, "Month")
           /\ SameInvoice(Cell(submission_agg, a, "Invoice"),
                          Cell(submission_agg, b, "Invoice"))
           /\ \E j \in Rows(remittance_agg) :
                  Cell(remittance_agg, j, "Invoice") = Cell(submission_agg, b, "Invoice")
           /\ \A j \in Rows(remittance_agg) :
                  Cell(remittance_agg, j, "Invoice") # Cell(submission_agg, a, "Invoice")
           /\ \E r \in ResultRowsOf(a) :
                  Cell(result, r, "Payment Reference") = Str("Pending")

\* The headers have been canonicalised (the files were read, lines 50-51 ran).
Canonicalized == pc \notin {"read", "clean"} /\ submission_df # NoFrame
SubmissionComplete == required_sub_cols \subseteq Range(submission_df.columns)
RemittanceComplete == required_rem_cols \subseteq Range(remittance_df.columns)

\* C8: when a required column is missing after header canonicalisation the
\* run reports the schema error of the first incomplete file and does
\* nothing else: no coercion, aggregation, join, table or download; the
\* steps from coercion to export run only with both column sets complete.
C8_SchemaShortCircuit ==
    /\ Canonicalized /\ ~(SubmissionComplete /\ RemittanceComplete) =>
           /\ pc \in {"validate", "done"}
           /\ submission_df = clean_columns(read_table(sub_file))
           /\ remittance_df = clean_columns(read_table(rem_file))
           /\ submission_agg = NoFrame /\ remittance_agg = NoFrame /\ result = NoFrame
           /\ table = <<>> /\ download = <<>>
           /\ pc = "validate" => errors = <<>>
           /\ pc = "done" =>
                  errors = <<IF SubmissionComplete THEN RemittanceSchemaError
                             ELSE SubmissionSchemaError>>
    /\ pc \in {"amounts", "dates", "agg_sub", "agg_rem", "merge", "fill",
               "difference", "status", "display", "export"} =>
           Canonicalized /\ SubmissionComplete /\ RemittanceComplete

\* C8's case: a run ended on the remittance schema error.
C8_Witness ==
    /\ pc = "done" /\ Canonicalized
    /\ SubmissionComplete /\ ~RemittanceComplete
    /\ errors = <<RemittanceSchemaError>>

\* C9: a run ends with the table and the download both emitted or neither,
\* and a run that reported an error emitted neither.
C9_AllOrNothing ==
    pc = "done" =>
        /\ (table = <<>>) <=> (download = <<>>)
        /\ errors # <<>> => table = <<>> /\ download = <<>>

Permuted(df, p) == [df EXCEPT !.rows = [i \in 1..Len(df.rows) |-> df.rows[p[i]]]]
Orders(n) == IF n = 0 THEN {<<>>} ELSE Permutations(1..n)

\* C10: the result is the same, rows, amounts, differences, statuses and
\* row order, for every order of the submission rows and of the remittance
\* rows.
C10_OrderInsensitive ==
    ResultReady =>
        \A p \in Orders(Len(sub_file.rows)) : \A q \in Orders(Len(rem_file.rows)) :
            classify(Permuted(clean_columns(read_table(sub_file)), p),
                     Permuted(clean_columns(read_table(rem_file)), q)) = result

====
